---- MODULE Spec2Model ----
(***************************************************************************)
(* pyevoea: the Graph model (src/src/graph/mod.rs) and the MocdPesaII      *)
(* object (src/src/mocd_pesa_ii/mod.rs).                                   *)
(*                                                                         *)
(* Spec      : a Graph built from Graph::new() by add_edge calls, with the *)
(*             read-only queries neighbors, num_nodes, num_edges and       *)
(*             precompute_degrees applied to it.                           *)
(* SpecPesa  : one MocdPesaII object: MocdPesaII::new, then any sequence   *)
(*             of generate_pareto_front, max_q and min_max calls.          *)
(***************************************************************************)
EXTENDS Integers, Sequences, FiniteSets, TLC

VARIABLES graph, calls, ret,
          self, new_ret, pc, archive, random_networks, random_archives,
          runs, selection, out, earlier_call

graphVars == <<graph, calls, ret>>
pesaVars == <<self, new_ret, pc, archive, random_networks, random_archives,
              runs, selection, out, earlier_call>>
vars == <<graph, calls, ret, self, new_ret, pc, archive, random_networks,
          random_archives, runs, selection, out, earlier_call>>

(***************************************************************************)
(* Bounds of the model.                                                    *)
(***************************************************************************)
\* node ids used by the add_edge calls are 0..MaxNode (NodeId is an i32)
MaxNode == 2
\* at most MaxEdges add_edge calls are made on the Graph
MaxEdges == 3
\* rand_networks is drawn from 0..MaxRand
MaxRand == 2

NodeIds == 0..MaxNode

(***************************************************************************)
(* Graph (src/src/graph/mod.rs).  A Graph value is a record of its three   *)
(* fields; adjacency_list is a function whose domain is the key set of the *)
(* hash map.                                                               *)
(***************************************************************************)
NoAdjacency == [n \in {} |-> <<>>]

GraphNew == [edges |-> <<>>, nodes |-> {}, adjacency_list |-> NoAdjacency]

\* adjacency_list.entry(k).or_default().push(v)
EntryOrDefaultPush(adj, k, v) ==
    [n \in (DOMAIN adj) \cup {k} |->
        IF n = k
        THEN Append(IF k \in DOMAIN adj THEN adj[k] ELSE <<>>, v)
        ELSE adj[n]]

\* mutant: the second endpoint is not inserted into the node set
add_edge_forgets_to_node(g, from, to) ==
    [edges |-> Append(g.edges, <<from, to>>),
     nodes |-> g.nodes \cup {from},
     adjacency_list |->
        EntryOrDefaultPush(EntryOrDefaultPush(g.adjacency_list, from, to),
                           to, from)]

\* mutant: the edge is recorded in one direction only
add_edge_directed(g, from, to) ==
    [edges |-> Append(g.edges, <<from, to>>),
     nodes |-> g.nodes \cup {from} \cup {to},
     adjacency_list |->
        IF to \in DOMAIN g.adjacency_list \/ to = from
        THEN EntryOrDefaultPush(g.adjacency_list, from, to)
        ELSE [n \in (DOMAIN g.adjacency_list) \cup {from, to} |->
                 IF n = from
                 THEN Append(IF from \in DOMAIN g.adjacency_list
                             THEN g.adjacency_list[from] ELSE <<>>, to)
                 ELSE IF n = to THEN <<>> ELSE g.adjacency_list[n]]]

\* mutant: an edge that is already recorded is not recorded again
add_edge_dedup(g, from, to) ==
    IF \E i \in DOMAIN g.edges : g.edges[i] = <<from, to>>
    THEN g
    ELSE [edges |-> Append(g.edges, <<from, to>>),
          nodes |-> g.nodes \cup {from} \cup {to},
          adjacency_list |->
             EntryOrDefaultPush(EntryOrDefaultPush(g.adjacency_list, from, to),
                                to, from)]

add_edge(g, from, to) ==
    [edges |-> Append(g.edges, <<from, to>>),
     nodes |-> g.nodes \cup {from} \cup {to},
     adjacency_list |->
        EntryOrDefaultPush(EntryOrDefaultPush(g.adjacency_list, from, to),
                           to, from)]

RECURSIVE Reverse(_)
Reverse(s) == IF s = <<>> THEN <<>> ELSE Append(Reverse(Tail(s)), Head(s))

\* mutant: the neighbor list is returned newest first
neighbors_reversed(g, node) ==
    IF node \in DOMAIN g.adjacency_list
    THEN Reverse(g.adjacency_list[node])
    ELSE <<>>

neighbors(g, node) ==
    IF node \in DOMAIN g.adjacency_list THEN g.adjacency_list[node] ELSE <<>>

num_nodes(g) == Cardinality(g.nodes)

\* mutant: parallel edges are counted once
num_edges_distinct(g) == Cardinality({g.edges[i] : i \in DOMAIN g.edges})

num_edges(g) == Len(g.edges)

\* mutant: the degree is the number of distinct neighbors
precompute_degrees_distinct(g) ==
    [panicked |-> \E n \in g.nodes : n \notin DOMAIN g.adjacency_list,
     degrees |->
        [n \in g.nodes \cap DOMAIN g.adjacency_list |->
            Cardinality({g.adjacency_list[n][i] :
                            i \in DOMAIN g.adjacency_list[n]})]]

\* self.adjacency_list[&node] panics when node is not a key; the table is
\* then never returned (degrees holds the entries of the keys that exist).
precompute_degrees(g) ==
    [panicked |-> \E n \in g.nodes : n \notin DOMAIN g.adjacency_list,
     degrees |->
        [n \in g.nodes \cap DOMAIN g.adjacency_list |->
            Len(g.adjacency_list[n])]]

(***************************************************************************)
(* Operations on the Graph.  calls is the history of add_edge arguments;   *)
(* ret is the last operation with its argument and its result.             *)
(***************************************************************************)
AddEdge(from, to) ==
    /\ Len(calls) < MaxEdges
    /\ graph' = add_edge(graph, from, to)
    /\ calls' = Append(calls, <<from, to>>)
    /\ ret' = [op |-> "add_edge", arg |-> <<from, to>>, val |-> <<>>]
    /\ UNCHANGED pesaVars

Neighbors(node) ==
    /\ ret' = [op |-> "neighbors", arg |-> <<node>>,
               val |-> neighbors(graph, node)]
    /\ UNCHANGED <<graph, calls>>
    /\ UNCHANGED pesaVars

NumNodes ==
    /\ ret' = [op |-> "num_nodes", arg |-> <<>>, val |-> num_nodes(graph)]
    /\ UNCHANGED <<graph, calls>>
    /\ UNCHANGED pesaVars

NumEdges ==
    /\ ret' = [op |-> "num_edges", arg |-> <<>>, val |-> num_edges(graph)]
    /\ UNCHANGED <<graph, calls>>
    /\ UNCHANGED pesaVars

PrecomputeDegrees ==
    /\ ret' = [op |-> "precompute_degrees", arg |-> <<>>,
               val |-> precompute_degrees(graph)]
    /\ UNCHANGED <<graph, calls>>
    /\ UNCHANGED pesaVars

InitGraph ==
    /\ graph = GraphNew
    /\ calls = <<>>
    /\ ret = [op |-> "new", arg |-> <<>>, val |-> <<>>]

InitPesa ==
    /\ self = <<>>
    /\ new_ret = "none"
    /\ pc = "idle"
    /\ archive = <<>>
    /\ random_networks = <<>>
    /\ random_archives = <<>>
    /\ runs = <<>>
    /\ selection = <<>>
    /\ out = [op |-> "none", ok |-> TRUE, val |-> <<>>]
    /\ earlier_call = FALSE

Init == InitGraph /\ InitPesa

Next ==
    \/ \E from \in NodeIds, to \in NodeIds : AddEdge(from, to)
    \/ \E node \in NodeIds : Neighbors(node)
    \/ NumNodes
    \/ NumEdges
    \/ PrecomputeDegrees

Spec == Init /\ [][Next]_vars

(***************************************************************************)
(* MocdPesaII (src/src/mocd_pesa_ii/mod.rs).                               *)
(*                                                                         *)
(* self is <<>> before construction and <<object>> after it; the object is *)
(* the record of the struct's fields.  cross_rate and mut_rate are f64 and *)
(* are modelled in tenths (8 is 0.8).  The engine, the selections, the     *)
(* random networks and the normalization live in modules that are not part *)
(* of the sources at hand and are modelled from the specification.         *)
(*                                                                         *)
(* pc is the position inside a min_max call; archive, random_networks and  *)
(* random_archives are the locals of the current (or last) call; runs are  *)
(* the arguments of the engine runs the current (or last) call started;    *)
(* selection holds what min_max_selection received; out is the value the   *)
(* last completed call returned and earlier_call tells whether a call had  *)
(* completed before the current (or last) one started.                     *)
(***************************************************************************)
DebugLevels == {0, 1}
RandNetworkCounts == 0..MaxRand
PopSizes == {0, 2}
NumGens == {3}
CrossRates == {-1, 8}
MutRates == {-2, 2}

\* utils::get_edges: the edge list of the caller's graph object, or an error
GetEdgesResults ==
    {[ok |-> FALSE, edges |-> <<>>]} \cup
    {[ok |-> TRUE, edges |-> es] :
        es \in {<<>>, <<<<0, 1>>>>, <<<<0, 1>>, <<1, 2>>>>}}

\* utils::build_graph: the graph of an edge list
RECURSIVE build_graph(_)
build_graph(es) ==
    IF es = <<>> THEN GraphNew
    ELSE LET e == es[Len(es)]
         IN add_edge(build_graph(SubSeq(es, 1, Len(es) - 1)), e[1], e[2])

\* utils::normalize_community_ids: community ids renumbered 0, 1, ... in the
\* order their label is first met when the nodes are taken in ascending order
FirstNodeOf(p, c) ==
    CHOOSE n \in DOMAIN p :
        p[n] = c /\ \A m \in DOMAIN p : p[m] = c => n <= m

normalize_community_ids(p) ==
    [n \in DOMAIN p |->
        Cardinality({c \in {p[m] : m \in DOMAIN p} :
                        FirstNodeOf(p, c) < FirstNodeOf(p, p[n])})]

\* evolutionary::evolutionary_phase: the archive a run on graph g may return.
\* Objectives are (intra, inter) in tenths.
SolutionOneCommunity(g) ==
    [partition |-> [n \in g.nodes |-> 7], objectives |-> <<1, 4>>]

SolutionTwoCommunities(g) ==
    [partition |-> [n \in g.nodes |-> IF n % 2 = 0 THEN 5 ELSE 2],
     objectives |-> <<2, 2>>]

EngineFronts(g) ==
    {<<>>,
     <<SolutionOneCommunity(g)>>,
     <<SolutionOneCommunity(g), SolutionTwoCommunities(g)>>,
     <<SolutionTwoCommunities(g), SolutionOneCommunity(g)>>}

\* model_selection::max_q_selection: the index of the first member with the
\* highest Q = 1 - intra - inter
max_q_selection(front) ==
    CHOOSE i \in DOMAIN front :
        \A j \in DOMAIN front :
            LET qi == 10 - front[i].objectives[1] - front[i].objectives[2]
                qj == 10 - front[j].objectives[1] - front[j].objectives[2]
            IN qi > qj \/ (qi = qj /\ i <= j)

\* model_selection::min_max_selection: the indices of the members of the
\* original front it may pick (its metric is not specified)
min_max_selection(front, random_fronts) == DOMAIN front

\* model_selection::generate_random_networks: n graphs, each the graph of the
\* edge list with the second endpoints of two edges possibly exchanged (node
\* count, edge count and degrees are kept)
Rewirings(es) ==
    {es} \cup
    {[k \in DOMAIN es |->
         IF k = i THEN <<es[i][1], es[j][2]>>
         ELSE IF k = j THEN <<es[j][1], es[i][2]>>
         ELSE es[k]] : i \in DOMAIN es, j \in DOMAIN es}

generate_random_networks(g, n) ==
    [1..n -> {build_graph(es) : es \in Rewirings(g.edges)}]

\* the arguments envolve passes to the engine (and whether it printed)
envolve(o) ==
    [graph |-> o.graph,
     debug_level |-> o.debug_level,
     num_gens |-> o.num_gens,
     pop_size |-> o.pop_size,
     cross_rate |-> o.cross_rate,
     mut_rate |-> o.mut_rate,
     degrees |-> precompute_degrees(o.graph),
     printed |-> o.debug_level >= 1]

\* mutant: the closure of min_max runs the engine on self.graph
random_run_on_own_graph(o, random_graph) ==
    [graph |-> o.graph,
     debug_level |-> o.debug_level,
     num_gens |-> o.num_gens,
     pop_size |-> o.pop_size,
     cross_rate |-> o.cross_rate,
     mut_rate |-> o.mut_rate,
     degrees |-> precompute_degrees(o.graph),
     printed |-> FALSE]

\* the arguments the closure of min_max passes to the engine
random_run(o, random_graph) ==
    [graph |-> random_graph,
     debug_level |-> o.debug_level,
     num_gens |-> o.num_gens,
     pop_size |-> o.pop_size,
     cross_rate |-> o.cross_rate,
     mut_rate |-> o.mut_rate,
     degrees |-> precompute_degrees(random_graph),
     printed |-> FALSE]

\* mutant: the objectives are paired with the partitions in reverse order
pareto_entries_repaired(front) ==
    [i \in DOMAIN front |->
        <<normalize_community_ids(front[i].partition),
          front[Len(front) + 1 - i].objectives>>]

\* first_front.into_iter().map(..).collect()
pareto_entries(front) ==
    [i \in DOMAIN front |->
        <<normalize_community_ids(front[i].partition), front[i].objectives>>]

\* mutant: an archive left by an earlier call is used instead of a new run
start_call_cached(o, front) ==
    IF archive # <<>>
    THEN [runs |-> <<>>, archive |-> archive]
    ELSE [runs |-> <<envolve(o)>>, archive |-> front]

\* let archive = self.envolve(): one engine run, whose result is front
start_call(o, front) == [runs |-> <<envolve(o)>>, archive |-> front]

New(ge, debug_level, rand_networks, pop_size, num_gens, cross_rate, mut_rate) ==
    /\ new_ret = "none"
    /\ IF ge.ok
       THEN /\ self' = <<[graph |-> build_graph(ge.edges),
                          debug_level |-> debug_level,
                          rand_networks |-> rand_networks,
                          pop_size |-> pop_size,
                          num_gens |-> num_gens,
                          cross_rate |-> cross_rate,
                          mut_rate |-> mut_rate]>>
            /\ new_ret' = "Ok"
       ELSE /\ self' = <<>>
            /\ new_ret' = "Err"
    /\ UNCHANGED <<pc, archive, random_networks, random_archives, runs,
                   selection, out, earlier_call>>
    /\ UNCHANGED graphVars

CanCall == new_ret = "Ok" /\ pc = "idle"

GenerateParetoFront ==
    /\ CanCall
    /\ \E front \in EngineFronts(self[1].graph) :
          LET c == start_call(self[1], front)
          IN /\ runs' = c.runs
             /\ archive' = c.archive
             /\ out' = [op |-> "generate_pareto_front", ok |-> TRUE,
                        val |-> pareto_entries(c.archive)]
    /\ random_networks' = <<>>
    /\ random_archives' = <<>>
    /\ selection' = <<>>
    /\ earlier_call' = (out.op # "none")
    /\ UNCHANGED <<self, new_ret, pc>>
    /\ UNCHANGED graphVars

\* max_q_selection returns a reference to a member of the archive, so it
\* cannot return from an empty archive: the call ends in a panic (ok FALSE)
MaxQ ==
    /\ CanCall
    /\ \E front \in EngineFronts(self[1].graph) :
          LET c == start_call(self[1], front)
          IN /\ runs' = c.runs
             /\ archive' = c.archive
             /\ out' = IF c.archive = <<>>
                       THEN [op |-> "max_q", ok |-> FALSE, val |-> <<>>]
                       ELSE [op |-> "max_q", ok |-> TRUE,
                             val |-> normalize_community_ids(
                                         c.archive[max_q_selection(c.archive)]
                                             .partition)]
    /\ random_networks' = <<>>
    /\ random_archives' = <<>>
    /\ selection' = <<>>
    /\ earlier_call' = (out.op # "none")
    /\ UNCHANGED <<self, new_ret, pc>>
    /\ UNCHANGED graphVars

\* min_max, line 103: let archive = self.envolve()
MinMaxEnvolve ==
    /\ CanCall
    /\ \E front \in EngineFronts(self[1].graph) :
          LET c == start_call(self[1], front)
          IN /\ runs' = c.runs
             /\ archive' = c.archive
    /\ random_networks' = <<>>
    /\ random_archives' = <<>>
    /\ selection' = <<>>
    /\ out' = [op |-> "pending", ok |-> TRUE, val |-> <<>>]
    /\ earlier_call' = (out.op # "none")
    /\ pc' = "generate"
    /\ UNCHANGED <<self, new_ret>>
    /\ UNCHANGED graphVars

\* min_max, lines 106-107: generate_random_networks
MinMaxGenerate ==
    /\ pc = "generate"
    /\ random_networks' \in
          generate_random_networks(self[1].graph, self[1].rand_networks)
    /\ pc' = "map"
    /\ UNCHANGED <<self, new_ret, archive, random_archives, runs, selection,
                   out, earlier_call>>
    /\ UNCHANGED graphVars

\* min_max, lines 109-124: the closure applied to the next random graph
MinMaxRandomRun ==
    /\ pc = "map"
    /\ Len(random_archives) < Len(random_networks)
    /\ LET random_graph == random_networks[Len(random_archives) + 1]
       IN /\ runs' = Append(runs, random_run(self[1], random_graph))
          /\ \E front \in EngineFronts(random_graph) :
                random_archives' = Append(random_archives, front)
    /\ UNCHANGED <<self, new_ret, pc, archive, random_networks, selection,
                   out, earlier_call>>
    /\ UNCHANGED graphVars

\* min_max, lines 125-128: min_max_selection and the normalized result; as
\* for max_q no member can be returned from an empty archive
MinMaxSelect ==
    /\ pc = "map"
    /\ Len(random_archives) = Len(random_networks)
    /\ selection' = <<[archive |-> archive,
                       random_archives |-> random_archives]>>
    /\ IF archive = <<>>
       THEN out' = [op |-> "min_max", ok |-> FALSE, val |-> <<>>]
       ELSE \E i \in min_max_selection(archive, random_archives) :
               out' = [op |-> "min_max", ok |-> TRUE,
                       val |-> normalize_community_ids(archive[i].partition)]
    /\ pc' = "idle"
    /\ UNCHANGED <<self, new_ret, archive, random_networks, random_archives,
                   runs, earlier_call>>
    /\ UNCHANGED graphVars

NextPesa ==
    \/ \E ge \in GetEdgesResults, dl \in DebugLevels, rn \in RandNetworkCounts,
          ps \in PopSizes, ng \in NumGens, cr \in CrossRates, mr \in MutRates :
          New(ge, dl, rn, ps, ng, cr, mr)
    \/ GenerateParetoFront
    \/ MaxQ
    \/ MinMaxEnvolve
    \/ MinMaxGenerate
    \/ MinMaxRandomRun
    \/ MinMaxSelect

SpecPesa == Init /\ [][NextPesa]_vars

(***************************************************************************)
(* Properties of the Graph (checked under Spec).                           *)
(***************************************************************************)
Endpoints(es) ==
    {es[i][1] : i \in DOMAIN es} \cup {es[i][2] : i \in DOMAIN es}

Count(s, x) == Cardinality({i \in DOMAIN s : s[i] = x})

\* what the history of add_edge calls says the neighbor list of n is: each
\* call (from, to) contributes to when from = n and then from when to = n
RECURSIVE NeighborsFromCalls(_, _)
NeighborsFromCalls(cs, n) ==
    IF cs = <<>> THEN <<>>
    ELSE LET c == cs[Len(cs)]
             before == NeighborsFromCalls(SubSeq(cs, 1, Len(cs) - 1), n)
         IN before \o (IF c[1] = n THEN <<c[2]>> ELSE <<>>)
                   \o (IF c[2] = n THEN <<c[1]>> ELSE <<>>)

\* the step is an add_edge call
IsAddEdgeStep == Len(calls') = Len(calls) + 1

\* C1: after any sequence of add_edge calls the endpoints of the edge list,
\* the node set and the key set of the adjacency list are the same set.
C1_EndpointsAreNodesAndKeys ==
    /\ \A n \in Endpoints(graph.edges) :
          n \in graph.nodes /\ n \in DOMAIN graph.adjacency_list
    /\ \A n \in graph.nodes \cup DOMAIN graph.adjacency_list :
          n \in Endpoints(graph.edges)

C1_Witness ==
    /\ Len(graph.edges) >= 2
    /\ Cardinality(Endpoints(graph.edges)) = 3

\* C2: the adjacency list is symmetric (b occurs in a's list as often as a
\* occurs in b's list), and each add_edge(a, b) appends b to a's list and a
\* to b's list.
C2_SymmetricState ==
    \A a \in NodeIds, b \in NodeIds :
        Count(neighbors(graph, a), b) = Count(neighbors(graph, b), a)

C2_AppendsBoth ==
    IsAddEdgeStep =>
        LET a == calls'[Len(calls')][1]
            b == calls'[Len(calls')][2]
        IN IF a = b
           THEN neighbors(graph', a) = neighbors(graph, a) \o <<a, a>>
           ELSE /\ neighbors(graph', a) = Append(neighbors(graph, a), b)
                /\ neighbors(graph', b) = Append(neighbors(graph, b), a)

C2_Symmetric == [](C2_SymmetricState) /\ [][C2_AppendsBoth]_vars

C2_Witness ==
    /\ ret.op = "add_edge"
    /\ \E a \in NodeIds, b \in NodeIds :
          a # b /\ Count(neighbors(graph, a), b) = 2

\* C3: precompute_degrees does not fail, its keys are the node set, each
\* degree is the length of the node's adjacency list, which is the number of
\* times the node was an endpoint of an add_edge call (a parallel edge counts
\* each time).
C3_DegreesTable ==
    ret.op = "precompute_degrees" =>
        /\ ~ret.val.panicked
        /\ DOMAIN ret.val.degrees = graph.nodes
        /\ \A n \in graph.nodes :
              /\ ret.val.degrees[n] = Len(graph.adjacency_list[n])
              /\ ret.val.degrees[n] =
                    Count(calls, <<n, n>>) +
                    Cardinality({i \in DOMAIN calls :
                                    calls[i][1] = n \/ calls[i][2] = n})

C3_Witness ==
    /\ ret.op = "precompute_degrees"
    /\ \E i \in DOMAIN calls, j \in DOMAIN calls :
          i < j /\ calls[i] = calls[j] /\ calls[i][1] # calls[i][2]

\* C4: num_edges is the number of add_edge calls made and num_nodes is the
\* number of distinct node ids that were an endpoint of a call.
C4_Counts ==
    /\ num_edges(graph) = Len(calls)
    /\ num_nodes(graph) = Cardinality(Endpoints(calls))
    /\ ret.op = "num_edges" => ret.val = Len(calls)
    /\ ret.op = "num_nodes" => ret.val = Cardinality(Endpoints(calls))

C4_Witness ==
    /\ ret.op = "num_edges"
    /\ ret.val = 3
    /\ Cardinality({calls[i] : i \in DOMAIN calls}) < 3

\* C5: neighbors(n) is empty for a node without a recorded edge (also one
\* never added) and otherwise lists the neighbors in the order of the
\* add_edge calls that introduced them.
C5_NeighborsInCallOrder ==
    ret.op = "neighbors" =>
        /\ ret.val = NeighborsFromCalls(calls, ret.arg[1])
        /\ ret.arg[1] \notin Endpoints(calls) => ret.val = <<>>

C5_Witness ==
    /\ ret.op = "neighbors"
    /\ Len(ret.val) >= 2
    /\ ret.val[1] # ret.val[2]

C5_WitnessEmpty ==
    /\ ret.op = "neighbors"
    /\ calls # <<>>
    /\ ret.arg[1] \notin Endpoints(calls)

\* the step repeats an add_edge call that was made before
IsRepeatedAddEdgeStep ==
    /\ IsAddEdgeStep
    /\ \E i \in DOMAIN calls : calls[i] = calls'[Len(calls')]

\* C6 as stated: a second add_edge(a, b) leaves the node set and the
\* adjacency lists of a and of b as they were after the first.
C6_Idempotent ==
    [][IsRepeatedAddEdgeStep =>
          LET a == calls'[Len(calls')][1]
              b == calls'[Len(calls')][2]
          IN /\ graph'.nodes = graph.nodes
             /\ neighbors(graph', a) = neighbors(graph, a)
             /\ neighbors(graph', b) = neighbors(graph, b)]_vars

\* C6 amended: a second add_edge(a, b) leaves the node set and the key set
\* of the adjacency list as they were, and records the parallel edge: b is
\* appended once more to a's list and a once more to b's list, and every
\* other list is as it was.
C6_IdempotentOnNodeSetOnly ==
    [][IsRepeatedAddEdgeStep =>
          LET a == calls'[Len(calls')][1]
              b == calls'[Len(calls')][2]
          IN /\ graph'.nodes = graph.nodes
             /\ DOMAIN graph'.adjacency_list = DOMAIN graph.adjacency_list
             /\ Count(neighbors(graph', a), b) > Count(neighbors(graph, a), b)
             /\ Count(neighbors(graph', b), a) > Count(neighbors(graph, b), a)
             /\ IF a = b
                THEN neighbors(graph', a) = neighbors(graph, a) \o <<a, a>>
                ELSE /\ neighbors(graph', a) = Append(neighbors(graph, a), b)
                     /\ neighbors(graph', b) = Append(neighbors(graph, b), a)
             /\ \A n \in NodeIds \ {a, b} :
                   neighbors(graph', n) = neighbors(graph, n)]_vars

C6_Witness ==
    /\ ret.op = "add_edge"
    /\ \E i \in DOMAIN calls : i < Len(calls) /\ calls[i] = calls[Len(calls)]

(***************************************************************************)
(* Properties of MocdPesaII (checked under SpecPesa).                      *)
(***************************************************************************)
\* a configuration the specification calls valid
ValidConfig(c) == c.pop_size > 0 /\ c.cross_rate >= 0 /\ c.mut_rate >= 0

CallDone ==
    pc = "idle" /\ out.op \in {"generate_pareto_front", "max_q", "min_max"}

\* C7: construction with pop_size = 0 or a negative cross_rate or mut_rate
\* yields an error, so that no object holds such a configuration, no engine
\* run is started with one, and the values are stored as given.
C7_InvalidConfigRejected ==
    /\ new_ret = "Ok" => ValidConfig(self[1])
    /\ \A i \in DOMAIN runs : ValidConfig(runs[i])

\* C8: a min_max call makes 1 + rand_networks engine runs, the first on the
\* object's graph and the others on the generated random graphs in order,
\* all with the object's debug_level, num_gens, pop_size, cross_rate and
\* mut_rate and with the degree table of the graph the run is on; the
\* selection happens after all of them and receives the original front and
\* the rand_networks random fronts.
C8_RunIsOn(r, g) ==
    /\ r.graph = g
    /\ r.debug_level = self[1].debug_level
    /\ r.num_gens = self[1].num_gens
    /\ r.pop_size = self[1].pop_size
    /\ r.cross_rate = self[1].cross_rate
    /\ r.mut_rate = self[1].mut_rate
    /\ ~r.degrees.panicked
    /\ DOMAIN r.degrees.degrees = g.nodes
    /\ \A n \in g.nodes : r.degrees.degrees[n] = Len(g.adjacency_list[n])

C8_MinMaxRuns ==
    /\ pc \in {"generate", "map"} =>
          /\ selection = <<>>
          /\ Len(runs) = 1 + Len(random_archives)
          /\ Len(runs) <= 1 + self[1].rand_networks
    /\ selection # <<>> =>
          /\ pc = "idle" /\ out.op = "min_max"
          /\ Len(runs) = 1 + self[1].rand_networks
          /\ Len(random_networks) = self[1].rand_networks
          /\ C8_RunIsOn(runs[1], self[1].graph)
          /\ \A k \in 1..self[1].rand_networks :
                C8_RunIsOn(runs[k + 1], random_networks[k])
          /\ selection[1].archive = archive
          /\ selection[1].random_archives = random_archives
          /\ Len(selection[1].random_archives) = self[1].rand_networks
    /\ (pc = "idle" /\ out.op = "min_max") => selection # <<>>

C8_Witness ==
    /\ pc = "idle" /\ out.op = "min_max" /\ out.ok
    /\ Len(runs) = 3
    /\ random_networks[1] # self[1].graph
    /\ random_archives[1] # random_archives[2]

\* C9: generate_pareto_front returns one entry per member of the front the
\* engine returned, in the same order; the entry's objectives are the
\* member's and its partition is the member's partition normalized (same
\* nodes, same grouping, ids renumbered from 0 in order of first occurrence).
C9_IsNormalizationOf(q, p) ==
    /\ DOMAIN q = DOMAIN p
    /\ \A n \in DOMAIN p, m \in DOMAIN p : (q[n] = q[m]) <=> (p[n] = p[m])
    /\ \A n \in DOMAIN p :
          /\ q[n] \in 0..(Cardinality({p[m] : m \in DOMAIN p}) - 1)
          /\ \A m \in DOMAIN p : m < n => q[m] <= q[n] \/ \E k \in DOMAIN p :
                                              k < m /\ q[k] = q[n]

C9_ParetoFront ==
    out.op = "generate_pareto_front" =>
        /\ out.ok
        /\ Len(out.val) = Len(archive)
        /\ \A i \in DOMAIN archive :
              /\ out.val[i][2] = archive[i].objectives
              /\ out.val[i][1] = normalize_community_ids(archive[i].partition)
              /\ C9_IsNormalizationOf(out.val[i][1], archive[i].partition)

C9_Witness ==
    /\ out.op = "generate_pareto_front"
    /\ Len(out.val) = 2
    /\ out.val[1][2] # out.val[2][2]
    /\ Cardinality(DOMAIN out.val[1][1]) = 3
    /\ out.val[1][1] # archive[1].partition
    /\ out.val[2][1] # archive[2].partition

\* C10: no call changes the object (its graph and its configuration stay as
\* constructed), and every call makes its own engine run on the object's
\* graph, whose result is the archive the call works on.
C10_ObjectUnchanged == new_ret = "Ok" => self' = self

C10_OwnRun ==
    (new_ret = "Ok" /\ out.op # "none") =>
        /\ runs # <<>>
        /\ runs[1] = envolve(self[1])
        /\ archive \in EngineFronts(runs[1].graph)

C10_OwnRunOnStart ==
    (new_ret = "Ok" /\ pc = "idle" /\ out' # out) =>
        /\ runs' # <<>>
        /\ runs'[1] = envolve(self[1])

C10_NoStateBetweenCalls ==
    /\ [][C10_ObjectUnchanged]_vars
    /\ [][C10_OwnRunOnStart]_vars
    /\ [](C10_OwnRun)

C10_Witness ==
    /\ CallDone
    /\ earlier_call
    /\ out.op = "max_q" /\ out.ok
    /\ archive # <<>>
    /\ self[1].graph.edges # <<>>

====
